---- MODULE Spec2Model ----
(***************************************************************************)
(* Model of symalign/multimodal_encoder.py and                             *)
(* symalign/multimodal_symbolic_loss.py.                                   *)
(*                                                                         *)
(* Tensors are sequences over the batch axis.  A spatial map (H,W) is a    *)
(* row of NPix pixels.  Real values are fixed-point integers in units of   *)
(* 1/One, so One is 1.0 and a probability lies in 0..One.  The embeddings  *)
(* the two learned encoders and the fusion module emit are terms           *)
(* [enc |-> <module>, ...] over their inputs: each output row is a         *)
(* function of its own input row and of nothing else.  The embeddings      *)
(* handed to update_priors and loss are rows of one integer (D = 1).       *)
(***************************************************************************)
EXTENDS Integers, Sequences, FiniteSets

VARIABLES ema_global, ema_boundary, boundary_width, huber_delta, output,
          last, events, n_masked_calls, n_upd_global, n_upd_boundary

vars == <<ema_global, ema_boundary, boundary_width, huber_delta, output,
          last, events, n_masked_calls, n_upd_global, n_upd_boundary>>

config == <<boundary_width, huber_delta, output>>
emas == <<ema_global, ema_boundary>>
counters == <<n_masked_calls, n_upd_global, n_upd_boundary>>

(***************************************************************************)
(* The fields of the records of the model: a call (last), a collaborator   *)
(* invocation (events), the outcome of an operator that may raise, a mask  *)
(* tensor, an embedding term, an EMAStats state.  TLC keeps the fields of  *)
(* a record in the order in which their names first occur in the module;   *)
(* every record below lists its fields in the order fixed here.            *)
(***************************************************************************)
FieldOrder ==
    [target |-> 1, op |-> 2, image |-> 3, mask_pair |-> 4, p |-> 5, width |-> 6,
     iterations |-> 7, z_g |-> 8, z_b |-> 9, mask |-> 10, outcome |-> 11, result |-> 12,
     method |-> 13, arg |-> 14, rows |-> 15,
     raised |-> 16, calls |-> 17, value |-> 18,
     dtype |-> 19, data |-> 20,
     enc |-> 21, input |-> 22, z_mask |-> 23, z_img |-> 24,
     initialized |-> 25, mean |-> 26, var |-> 27]

(***************************************************************************)
(* Bounds of the model.                                                    *)
(***************************************************************************)
MaxBatch == 2
MaxCalls == 2
NPix == 3
One == 2
ViewGap == 10

(***************************************************************************)
(* The defaults of the MultiModalSymbolicAlignment dataclass.              *)
(***************************************************************************)
default_boundary_width == 2
default_huber_delta == 1

Abs(n) == IF n < 0 THEN -n ELSE n

RECURSIVE SumTo(_, _)
SumTo(f, n) == IF n = 0 THEN 0 ELSE f[n] + SumTo(f, n - 1)

ISqrt(n) == CHOOSE r \in 0..n : r * r <= n /\ n < (r + 1) * (r + 1)

(***************************************************************************)
(* prior.EMAStats: running mean and variance with decay 1/2, seeded from   *)
(* the first non-empty batch; zscore reads the state and falls back to     *)
(* mean 0, variance 1 before the first update.                             *)
(***************************************************************************)
EMAStats == [initialized |-> FALSE, mean |-> 0, var |-> 1]

EMAStats_update(s, rows) ==
    IF Len(rows) = 0 THEN s
    ELSE LET n == Len(rows)
             bm == SumTo(rows, n) \div n
             bv == SumTo([i \in 1..n |-> (rows[i] - bm) * (rows[i] - bm)], n) \div n
         IN IF ~s.initialized
            THEN [initialized |-> TRUE, mean |-> bm, var |-> bv]
            ELSE [initialized |-> TRUE,
                  mean |-> (s.mean + bm) \div 2,
                  var |-> (s.var + bv) \div 2]

EMAStats_zscore(s, rows) ==
    <<[i \in 1..Len(rows) |-> (rows[i] - s.mean) \div ISqrt(s.var + 1)], s.mean, s.var>>

(***************************************************************************)
(* prior.robust_huber, in units of one half: e^2 inside the quadratic      *)
(* region, delta * (2|e| - delta) outside it, summed over the elements.    *)
(***************************************************************************)
robust_huber(z, delta) ==
    SumTo([i \in 1..Len(z) |->
              IF Abs(z[i]) <= delta THEN z[i] * z[i]
              ELSE delta * (2 * Abs(z[i]) - delta)], Len(z))

(***************************************************************************)
(* torch: a mask tensor is [dtype, data]; data holds booleans for dtype    *)
(* "bool" and integers otherwise.  Tensor.bool() maps nonzero to True.     *)
(***************************************************************************)
numel(mask) == Len(mask.data)

to_bool(mask) ==
    [dtype |-> "bool", data |-> [i \in 1..Len(mask.data) |-> mask.data[i] # 0]]

any(mask) == \E i \in 1..Len(mask.data) : mask.data[i]

RECURSIVE take_true(_, _, _)
take_true(z, m, n) ==
    IF n = 0 THEN <<>>
    ELSE IF m[n] THEN Append(take_true(z, m, n - 1), z[n])
         ELSE take_true(z, m, n - 1)

(***************************************************************************)
(* torch: z[mask] for a boolean mask selects the rows whose entry is true, *)
(* in batch order; true_rows is the set of those row indices.              *)
(***************************************************************************)
tensor_index(z, mask) == take_true(z, mask.data, Len(mask.data))

true_rows(mask) == {i \in 1..Len(mask.data) : mask.data[i]}

update_priors_calls_unguarded(z_g, z_b, mask) ==
    IF numel(mask) = 0 THEN <<>>
    ELSE LET m == IF mask.dtype # "bool" THEN to_bool(mask) ELSE mask
         IN << [target |-> "ema_global", method |-> "update",
                arg |-> tensor_index(z_g, m), rows |-> true_rows(m)],
               [target |-> "ema_boundary", method |-> "update",
                arg |-> tensor_index(z_b, m), rows |-> true_rows(m)] >>

update_priors_calls_unmasked(z_g, z_b, mask) ==
    IF numel(mask) = 0 THEN <<>>
    ELSE LET m == IF mask.dtype # "bool" THEN to_bool(mask) ELSE mask
         IN IF any(m)
            THEN << [target |-> "ema_global", method |-> "update",
                     arg |-> z_g, rows |-> true_rows(m)],
                    [target |-> "ema_boundary", method |-> "update",
                     arg |-> z_b, rows |-> true_rows(m)] >>
            ELSE <<>>

update_priors_calls_boundary_first(z_g, z_b, mask) ==
    IF numel(mask) = 0 THEN <<>>
    ELSE LET m == IF mask.dtype # "bool" THEN to_bool(mask) ELSE mask
         IN IF any(m)
            THEN << [target |-> "ema_boundary", method |-> "update",
                     arg |-> tensor_index(z_b, m), rows |-> true_rows(m)],
                    [target |-> "ema_global", method |-> "update",
                     arg |-> tensor_index(z_g, m), rows |-> true_rows(m)] >>
            ELSE <<>>

(***************************************************************************)
(* MultiModalSymbolicAlignment.update_priors: the calls it makes on the    *)
(* two EMAStats instances, in order.                                       *)
(***************************************************************************)
update_priors_calls(z_g, z_b, mask) ==
    IF numel(mask) = 0 THEN <<>>
    ELSE LET m == IF mask.dtype # "bool" THEN to_bool(mask) ELSE mask
         IN IF any(m)
            THEN << [target |-> "ema_global", method |-> "update",
                     arg |-> tensor_index(z_g, m), rows |-> true_rows(m)],
                    [target |-> "ema_boundary", method |-> "update",
                     arg |-> tensor_index(z_b, m), rows |-> true_rows(m)] >>
            ELSE <<>>

RECURSIVE apply_updates(_, _, _, _)
apply_updates(s, target, calls, n) ==
    IF n = 0 THEN s
    ELSE LET before == apply_updates(s, target, calls, n - 1)
         IN IF calls[n].target = target /\ calls[n].method = "update"
            THEN EMAStats_update(before, calls[n].arg)
            ELSE before

count_updates(target, calls) ==
    Cardinality({k \in 1..Len(calls) :
                    calls[k].target = target /\ calls[k].method = "update"})

update_priors(z_g, z_b, mask) ==
    LET calls == update_priors_calls(z_g, z_b, mask)
        masked == IF mask.dtype = "bool" THEN any(mask) ELSE any(to_bool(mask))
    IN /\ n_masked_calls + (IF masked THEN 1 ELSE 0) <= MaxCalls
       /\ n_upd_global + count_updates("ema_global", calls) <= MaxCalls
       /\ n_upd_boundary + count_updates("ema_boundary", calls) <= MaxCalls
       /\ ema_global' = apply_updates(ema_global, "ema_global", calls, Len(calls))
       /\ ema_boundary' = apply_updates(ema_boundary, "ema_boundary", calls, Len(calls))
       /\ events' = calls
       /\ last' = [op |-> "update_priors", z_g |-> z_g, z_b |-> z_b, mask |-> mask,
                   outcome |-> "returned"]
       /\ n_masked_calls' = n_masked_calls + (IF masked THEN 1 ELSE 0)
       /\ n_upd_global' = n_upd_global + count_updates("ema_global", calls)
       /\ n_upd_boundary' = n_upd_boundary + count_updates("ema_boundary", calls)
       /\ UNCHANGED config

loss_calls_crossed(z_g, z_b) ==
    << [target |-> "ema_global", method |-> "zscore", arg |-> z_b],
       [target |-> "ema_boundary", method |-> "zscore", arg |-> z_g] >>

loss_calls_updating(z_g, z_b) ==
    << [target |-> "ema_global", method |-> "update", arg |-> z_g],
       [target |-> "ema_boundary", method |-> "update", arg |-> z_b] >>

(***************************************************************************)
(* MultiModalSymbolicAlignment.loss: z-score each view with its own        *)
(* statistics and add the two robust losses.                               *)
(***************************************************************************)
loss_calls(z_g, z_b) ==
    << [target |-> "ema_global", method |-> "zscore", arg |-> z_g],
       [target |-> "ema_boundary", method |-> "zscore", arg |-> z_b] >>

loss(z_g, z_b) ==
    LET calls == loss_calls(z_g, z_b)
        zg == EMAStats_zscore(IF calls[1].target = "ema_global" THEN ema_global
                              ELSE ema_boundary, calls[1].arg)[1]
        zb == EMAStats_zscore(IF calls[2].target = "ema_global" THEN ema_global
                              ELSE ema_boundary, calls[2].arg)[1]
    IN /\ events' = calls
       /\ ema_global' = apply_updates(ema_global, "ema_global", calls, Len(calls))
       /\ ema_boundary' = apply_updates(ema_boundary, "ema_boundary", calls, Len(calls))
       /\ last' = [op |-> "loss", z_g |-> z_g, z_b |-> z_b, outcome |-> "returned",
                   result |-> robust_huber(zg, huber_delta) + robust_huber(zb, huber_delta)]
       /\ n_upd_global' = n_upd_global + count_updates("ema_global", calls)
       /\ n_upd_boundary' = n_upd_boundary + count_updates("ema_boundary", calls)
       /\ UNCHANGED <<config, n_masked_calls>>

(***************************************************************************)
(* masks.boundary_band on one row of pixels: the pixels within width of a  *)
(* pixel of the other value (dilation minus erosion), as 0 or One.         *)
(***************************************************************************)
boundary_band(bin, width) ==
    [x \in 1..NPix |->
        IF \E y \in 1..NPix : Abs(x - y) <= width /\ bin[y] # bin[x] THEN One ELSE 0]

(***************************************************************************)
(* torch.stack of a list of tensors: an empty list is a RuntimeError       *)
(* ("stack expects a non-empty TensorList").                               *)
(***************************************************************************)
torch_stack(outs) ==
    IF Len(outs) = 0 THEN [iterations |-> 0, raised |-> TRUE]
    ELSE [iterations |-> Len(outs), raised |-> FALSE, value |-> outs]

(***************************************************************************)
(* boundary_from_prob: threshold each sample at 0.5, band it, stack.       *)
(***************************************************************************)
boundary_from_prob(p, width) ==
    LET bs == Len(p)
        outs == [i \in 1..bs |->
                    LET pi == p[i][1]
                        hard == [x \in 1..NPix |-> IF 2 * pi[x] > One THEN One ELSE 0]
                    IN <<boundary_band(hard, width)>>]
    IN torch_stack(outs)

(***************************************************************************)
(* MultiModalSymbolicEncoder.forward.  image * mask_ch broadcasts over the *)
(* colour channels and, by torch's rule, over a batch axis of size 1; any  *)
(* other batch mismatch is a RuntimeError.  torch.cat in the fusion module *)
(* needs equal batch sizes.  The masked image is in units of 1/One.        *)
(***************************************************************************)
clamp(v, lo, hi) == IF v < lo THEN lo ELSE IF v > hi THEN hi ELSE v

broadcast_batch(Bi, Bm) ==
    IF Bi = Bm THEN Bi ELSE IF Bi = 1 THEN Bm ELSE IF Bm = 1 THEN Bi ELSE -1

mask_encoder(mask_pair) ==
    [b \in 1..Len(mask_pair) |-> [enc |-> "mask_encoder", input |-> mask_pair[b]]]

mask_channel_boundary(mask_pair) ==
    [b \in 1..Len(mask_pair) |-> [x \in 1..NPix |-> clamp(mask_pair[b][2][x], 0, One)]]

mask_channel(mask_pair) ==
    [b \in 1..Len(mask_pair) |-> [x \in 1..NPix |-> clamp(mask_pair[b][1][x], 0, One)]]

masked_image(image, mask_ch) ==
    LET Bi == Len(image)
        Bm == Len(mask_ch)
    IN [b \in 1..broadcast_batch(Bi, Bm) |->
           [c \in 1..3 |->
               [x \in 1..NPix |->
                   image[IF Bi = 1 THEN 1 ELSE b][c][x] * mask_ch[IF Bm = 1 THEN 1 ELSE b][x]]]]

image_encoder(x) ==
    [b \in 1..Len(x) |-> [enc |-> "image_encoder", input |-> x[b]]]

fusion(z_mask, z_img) ==
    [b \in 1..Len(z_mask) |-> [enc |-> "fusion", z_mask |-> z_mask[b], z_img |-> z_img[b]]]

encoder(image, mask_pair) ==
    LET z_mask == mask_encoder(mask_pair)
        mask_ch == mask_channel(mask_pair)
    IN IF broadcast_batch(Len(image), Len(mask_ch)) < 0 THEN [raised |-> TRUE]
       ELSE LET z_img == image_encoder(masked_image(image, mask_ch))
            IN IF Len(z_mask) # Len(z_img) THEN [raised |-> TRUE]
               ELSE [raised |-> FALSE, value |-> <<fusion(z_mask, z_img), z_mask, z_img>>]

MultiModalSymbolicEncoder_forward(image, mask_pair) ==
    LET r == encoder(image, mask_pair)
    IN /\ last' = IF r.raised
                  THEN [op |-> "forward", image |-> image, mask_pair |-> mask_pair,
                        outcome |-> "raised"]
                  ELSE [op |-> "forward", image |-> image, mask_pair |-> mask_pair,
                        outcome |-> "returned", result |-> r.value]
       /\ events' = <<>>
       /\ UNCHANGED <<config, emas, counters>>

call_boundary_from_prob(p, width) ==
    LET r == boundary_from_prob(p, width)
    IN /\ last' = IF r.raised
                  THEN [op |-> "boundary_from_prob", p |-> p, width |-> width,
                        iterations |-> r.iterations, outcome |-> "raised"]
                  ELSE [op |-> "boundary_from_prob", p |-> p, width |-> width,
                        iterations |-> r.iterations, outcome |-> "returned",
                        result |-> r.value]
       /\ events' = <<>>
       /\ UNCHANGED <<config, emas, counters>>

(***************************************************************************)
(* MultiModalSymbolicAlignment.compute_embeddings.                         *)
(***************************************************************************)
torch_cat_channels(a, b) == [i \in 1..Len(a) |-> a[i] \o b[i]]

global_view(p, bnd) == torch_cat_channels(p, bnd)

boundary_view(p, bnd) == torch_cat_channels(bnd, bnd)

select_output_fused_boundary(out, r_g, r_b) ==
    IF out = "mask" THEN <<r_g[2], r_b[1]>>
    ELSE IF out = "image" THEN <<r_g[3], r_b[1]>>
    ELSE <<r_g[1], r_b[1]>>

select_output(out, r_g, r_b) ==
    IF out = "mask" THEN <<r_g[2], r_b[2]>>
    ELSE IF out = "image" THEN <<r_g[3], r_b[3]>>
    ELSE <<r_g[1], r_b[1]>>

encoder_calls(image, x_g, x_b) ==
    << [target |-> "encoder", image |-> image, mask_pair |-> x_g],
       [target |-> "encoder", image |-> image, mask_pair |-> x_b] >>

compute_embeddings_result(out, image, p, width) ==
    LET bfp == [target |-> "boundary_from_prob", p |-> p, width |-> width]
        b == boundary_from_prob(bfp.p, bfp.width)
    IN IF b.raised THEN [raised |-> TRUE, calls |-> <<bfp>>]
       ELSE LET x_g == global_view(p, b.value)
                x_b == boundary_view(p, b.value)
                calls == encoder_calls(image, x_g, x_b)
                r_g == encoder(calls[1].image, calls[1].mask_pair)
                r_b == encoder(calls[2].image, calls[2].mask_pair)
            IN IF r_g.raised THEN [raised |-> TRUE, calls |-> <<bfp, calls[1]>>]
               ELSE IF r_b.raised THEN [raised |-> TRUE, calls |-> <<bfp>> \o calls]
               ELSE [raised |-> FALSE, calls |-> <<bfp>> \o calls,
                     value |-> select_output(out, r_g.value, r_b.value)]

compute_embeddings(image, p) ==
    LET r == compute_embeddings_result(output, image, p, boundary_width)
    IN /\ events' = r.calls
       /\ last' = IF r.raised
                  THEN [op |-> "compute_embeddings", image |-> image, p |-> p,
                        outcome |-> "raised"]
                  ELSE [op |-> "compute_embeddings", image |-> image, p |-> p,
                        outcome |-> "returned", result |-> r.value]
       /\ UNCHANGED <<config, emas, counters>>

(***************************************************************************)
(* Inputs.                                                                 *)
(***************************************************************************)
Batches == 0..MaxBatch
NonEmptyBatches == 1..MaxBatch

GlobalEmbeddings(B, k) ==
    IF k = 0 THEN [i \in 1..B |-> i] ELSE [i \in 1..B |-> B + 1 - i]

BoundaryEmbeddings(B, k) ==
    IF k = 0 THEN [i \in 1..B |-> ViewGap + B + 1 - i] ELSE [i \in 1..B |-> ViewGap + i]

EmbeddingPairs(B) == { <<GlobalEmbeddings(B, k), BoundaryEmbeddings(B, k)>> : k \in 0..1 }

MaskDtypes == {"bool", "int64"}
IntMaskValues == {0, 2}

Masks(B, dtype) ==
    IF dtype = "bool"
    THEN { [dtype |-> dtype, data |-> data] : data \in [1..B -> BOOLEAN] }
    ELSE { [dtype |-> dtype, data |-> data] : data \in [1..B -> IntMaskValues] }

ImageSample(v) == [c \in 1..3 |-> [x \in 1..NPix |-> v + c + x]]

Images(B) == { [i \in 1..B |-> ImageSample(v + i)] : v \in 0..1 }

ProbSample(k) ==
    IF k = 0 THEN <<[x \in 1..NPix |-> IF x < NPix THEN One ELSE 0]>>
    ELSE IF k = 1 THEN <<[x \in 1..NPix |-> IF x = 1 THEN One \div 2 ELSE One]>>
    ELSE <<[x \in 1..NPix |-> One]>>

Probs(B) == { [i \in 1..B |-> ProbSample((i + k) % 3)] : k \in 0..2 }

MaskPairSample(k) ==
    << [x \in 1..NPix |-> IF x = 1 THEN k - 1 ELSE IF x = 2 THEN One + k ELSE 1],
       [x \in 1..NPix |-> IF x = 1 THEN One ELSE k] >>

MaskPairs(B) == { [i \in 1..B |-> MaskPairSample((i + k) % 3)] : k \in 0..2 }

Widths == {1, default_boundary_width}

Init ==
    /\ ema_global = EMAStats
    /\ ema_boundary = EMAStats
    /\ boundary_width \in Widths
    /\ huber_delta = default_huber_delta
    /\ output \in {"fused", "mask", "image"}
    /\ last = [op |-> "init"]
    /\ events = <<>>
    /\ n_masked_calls = 0
    /\ n_upd_global = 0
    /\ n_upd_boundary = 0

NextPrior ==
    \/ \E B \in Batches, dtype \in MaskDtypes :
          \E z \in EmbeddingPairs(B), mask \in Masks(B, dtype) :
             update_priors(z[1], z[2], mask)
    \/ \E B \in Batches : \E z \in EmbeddingPairs(B) : loss(z[1], z[2])

NextEncoder ==
    \E Bi \in NonEmptyBatches, Bm \in NonEmptyBatches :
       \E image \in Images(Bi), mask_pair \in MaskPairs(Bm) :
          MultiModalSymbolicEncoder_forward(image, mask_pair)

NextEmbeddings ==
    \/ \E B \in Batches : \E p \in Probs(B), width \in Widths :
          call_boundary_from_prob(p, width)
    \/ \E B \in Batches : \E image \in Images(B), p \in Probs(B) :
          compute_embeddings(image, p)

NextAlignment ==
    \/ \E B \in Batches : \E image \in Images(B), p \in Probs(B) :
          compute_embeddings(image, p)
    \/ NextPrior

Next ==
    \/ NextEncoder
    \/ NextEmbeddings
    \/ NextPrior

Spec == Init /\ [][Next]_vars
SpecAlignment == Init /\ [][NextAlignment]_vars
SpecPrior == Init /\ [][NextPrior]_vars
SpecEncoder == Init /\ [][NextEncoder]_vars
SpecEmbeddings == Init /\ [][NextEmbeddings]_vars

(***************************************************************************)
(* Properties.                                                             *)
(***************************************************************************)
IsTrue(mask, i) == IF mask.dtype = "bool" THEN mask.data[i] ELSE mask.data[i] # 0

TrueRows(mask) == {i \in 1..Len(mask.data) : IsTrue(mask, i)}

IsUpdate(e) == e.method = "update"

\* C1: update_priors with a mask that has no true entry (empty or all false)
\* makes no update call, leaves both EMAStats instances as they were and
\* returns normally.
C1_NoTrueEntryIsNoOp ==
    [][(last'.op = "update_priors" /\ TrueRows(last'.mask) = {})
          => /\ last'.outcome = "returned"
             /\ events' = <<>>
             /\ ema_global' = ema_global
             /\ ema_boundary' = ema_boundary
             /\ n_upd_global' = n_upd_global
             /\ n_upd_boundary' = n_upd_boundary]_vars

C1_Witness ==
    /\ last.op = "update_priors"
    /\ last.outcome = "returned"
    /\ Len(last.mask.data) = MaxBatch
    /\ TrueRows(last.mask) = {}
    /\ events = <<>>
    /\ ema_global.initialized
    /\ ema_boundary.initialized

\* C2: the batch update_priors hands to an EMAStats update is exactly the
\* rows of the embedding whose mask entry is true (nonzero for a non-boolean
\* mask), in batch order.
C2_OnlyMaskedRowsUpdate ==
    last.op = "update_priors" =>
        \A k \in 1..Len(events) :
            IsUpdate(events[k]) =>
                LET z == IF events[k].target = "ema_global" THEN last.z_g ELSE last.z_b
                    T == TrueRows(last.mask)
                    got == events[k].arg
                IN /\ Len(got) = Cardinality(T)
                   /\ \A i \in T : got[Cardinality({t \in T : t <= i})] = z[i]

C2_Witness ==
    /\ last.op = "update_priors"
    /\ last.mask.dtype = "int64"
    /\ TrueRows(last.mask) # {}
    /\ TrueRows(last.mask) # 1..Len(last.mask.data)
    /\ 1 \notin TrueRows(last.mask)
    /\ Len(events) = 2
    /\ Len(events[1].arg) = Cardinality(TrueRows(last.mask))

\* C3: ema_global is updated and read only with rows of the global-view
\* embedding z_g, ema_boundary only with rows of the boundary-view embedding
\* z_b, so the running mean of each stays within the values of its own view.
C3_NoCrossUse ==
    /\ (last.op = "update_priors" \/ last.op = "loss") =>
          \A k \in 1..Len(events) :
              LET own == IF events[k].target = "ema_global" THEN last.z_g ELSE last.z_b
                  other == IF events[k].target = "ema_global" THEN last.z_b ELSE last.z_g
                  got == events[k].arg
              IN /\ events[k].target = "ema_global" \/ events[k].target = "ema_boundary"
                 /\ \A j \in 1..Len(got) :
                       /\ \E i \in 1..Len(own) : got[j] = own[i]
                       /\ \A i \in 1..Len(other) : got[j] # other[i]
                 /\ ~IsUpdate(events[k]) => got = own
    /\ ema_global.initialized => ema_global.mean \in 1..MaxBatch
    /\ ema_boundary.initialized => ema_boundary.mean \in (ViewGap + 1)..(ViewGap + MaxBatch)

C3_Witness ==
    /\ last.op = "loss"
    /\ Len(last.z_g) = MaxBatch
    /\ Len(events) = 2
    /\ ema_global.initialized
    /\ ema_boundary.initialized
    /\ n_upd_global = MaxCalls

\* C6: compute_embeddings and loss leave the state of both EMAStats instances
\* unchanged and make no update call on them; only update_priors changes it.
C6_OnlyUpdatePriorsWrites ==
    [][(last'.op = "compute_embeddings" \/ last'.op = "loss")
          => /\ ema_global' = ema_global
             /\ ema_boundary' = ema_boundary
             /\ n_upd_global' = n_upd_global
             /\ n_upd_boundary' = n_upd_boundary]_vars

C6_Witness ==
    /\ last.op = "loss"
    /\ Len(last.z_g) > 0
    /\ ~ema_global.initialized
    /\ ~ema_boundary.initialized
    /\ n_upd_global = 0

\* C10: the two EMAStats instances are updated in lockstep: each has received
\* as many updates as there were update_priors calls with a true mask entry,
\* and such a call updates ema_global first, ema_boundary second, with the
\* same row indices.
C10_LockstepUpdates ==
    /\ n_upd_global = n_masked_calls
    /\ n_upd_boundary = n_masked_calls
    /\ (last.op = "update_priors" /\ TrueRows(last.mask) # {}) =>
          /\ Len(events) = 2
          /\ events[1].target = "ema_global" /\ IsUpdate(events[1])
          /\ events[2].target = "ema_boundary" /\ IsUpdate(events[2])
          /\ events[1].rows = TrueRows(last.mask)
          /\ events[2].rows = events[1].rows

C10_Witness ==
    /\ last.op = "update_priors"
    /\ TrueRows(last.mask) # {}
    /\ n_masked_calls = MaxCalls
    /\ n_upd_global = MaxCalls
    /\ n_upd_boundary = MaxCalls

\* C4: with batch size 0, boundary_from_prob returns an empty tensor without
\* iterating over samples and without raising, and compute_embeddings returns
\* empty embeddings for both views without raising.
C4_EmptyBatchReturnsEmpty ==
    /\ (last.op = "boundary_from_prob" /\ Len(last.p) = 0) =>
          /\ last.iterations = 0
          /\ last.outcome = "returned"
          /\ last.result = <<>>
    /\ (last.op = "compute_embeddings" /\ Len(last.p) = 0) =>
          /\ last.outcome = "returned"
          /\ last.result = <<<<>>, <<>>>>

\* C5: forward raises whenever the batch size of image differs from the batch
\* size of mask_pair; it never broadcasts one of them and returns embeddings.
C5_BatchMismatchRaises ==
    (last.op = "forward" /\ Len(last.image) # Len(last.mask_pair)) =>
        last.outcome = "raised"

\* C7: a compute_embeddings call that returns yields the configured channel
\* of each view: the fused, the mask-only or the image-only embedding of the
\* encoder on the global view [p, boundary], then the same channel of the
\* encoder on the boundary-only view [boundary, boundary].
C7_ReturnsConfiguredChannel ==
    (last.op = "compute_embeddings" /\ last.outcome = "returned") =>
        LET bnd == boundary_from_prob(last.p, boundary_width).value
            module == IF output = "mask" THEN "mask_encoder"
                      ELSE IF output = "image" THEN "image_encoder" ELSE "fusion"
            k == IF output = "mask" THEN 2 ELSE IF output = "image" THEN 3 ELSE 1
            of_global == encoder(last.image, [i \in 1..Len(last.p) |-> last.p[i] \o bnd[i]])
            of_boundary == encoder(last.image, [i \in 1..Len(last.p) |-> bnd[i] \o bnd[i]])
        IN /\ Len(last.result[1]) = Len(last.p)
           /\ Len(last.result[2]) = Len(last.p)
           /\ \A i \in 1..Len(last.p) :
                 /\ last.result[1][i].enc = module
                 /\ last.result[2][i].enc = module
                 /\ last.result[1][i] = of_global.value[k][i]
                 /\ last.result[2][i] = of_boundary.value[k][i]

C7_Witness ==
    /\ last.op = "compute_embeddings"
    /\ last.outcome = "returned"
    /\ output = "image"
    /\ Len(last.p) = MaxBatch
    /\ last.result[1] # last.result[2]

\* C8: every compute_embeddings call computes the boundary band once from p
\* at the configured width and invokes the encoder exactly twice with the
\* same image, first on the global view [p, boundary] and then on the
\* boundary-only view [boundary, boundary].
C8_TwoEncoderCallsOnBothViews ==
    last.op = "compute_embeddings" =>
        /\ Len(events) = 3
        /\ events[1].target = "boundary_from_prob"
        /\ events[1].p = last.p
        /\ events[1].width = boundary_width
        /\ events[2].target = "encoder"
        /\ events[3].target = "encoder"
        /\ events[2].image = last.image
        /\ events[3].image = last.image
        /\ LET bnd == boundary_from_prob(last.p, boundary_width).value
           IN \A i \in 1..Len(last.p) :
                 /\ events[2].mask_pair[i] = <<last.p[i][1], bnd[i][1]>>
                 /\ events[3].mask_pair[i] = <<bnd[i][1], bnd[i][1]>>

\* C9: forward hands the full, unclamped mask_pair to the mask encoder and
\* the image multiplied by channel 0 of mask_pair clamped to [0,1] to the
\* image encoder, whatever channel 1 holds; it returns (fused, mask-only,
\* image-only) with fused computed from those two embeddings.
C9_MaskedImageFromChannelZero ==
    (last.op = "forward" /\ last.outcome = "returned") =>
        LET z_fused == last.result[1]
            z_mask == last.result[2]
            z_img == last.result[3]
            Bi == Len(last.image)
        IN /\ Len(z_mask) = Len(last.mask_pair)
           /\ Len(z_img) = Len(last.mask_pair)
           /\ Len(z_fused) = Len(last.mask_pair)
           /\ \A b \in 1..Len(last.mask_pair) :
                 /\ z_mask[b].enc = "mask_encoder"
                 /\ z_mask[b].input = last.mask_pair[b]
                 /\ z_img[b].enc = "image_encoder"
                 /\ \A c \in 1..3, x \in 1..NPix :
                       LET m == last.mask_pair[b][1][x]
                           px == last.image[IF Bi = 1 THEN 1 ELSE b][c][x]
                       IN z_img[b].input[c][x] =
                             (IF m < 0 THEN 0 ELSE IF m > One THEN px * One ELSE px * m)
                 /\ z_fused[b].enc = "fusion"
                 /\ z_fused[b].z_mask = z_mask[b]
                 /\ z_fused[b].z_img = z_img[b]

C9_Witness ==
    /\ last.op = "forward"
    /\ last.outcome = "returned"
    /\ Len(last.image) = MaxBatch
    /\ Len(last.mask_pair) = MaxBatch
    /\ \E b \in 1..MaxBatch : \E x \in 1..NPix : last.mask_pair[b][1][x] > One
    /\ \E b \in 1..MaxBatch : \E x \in 1..NPix : last.mask_pair[b][1][x] < 0
    /\ \E b \in 1..MaxBatch : last.mask_pair[b][1] # last.mask_pair[b][2]
====
